---- MODULE Spec2Model ----
(***************************************************************************)
(* Workflow-streaming coordination core of the onboarding backend:         *)
(*   - OnboardingWorkflow (temporal/workflows/onboarding.py) with its      *)
(*     StreamingMixin (temporal/workflows/mixins/streaming.py),            *)
(*   - the start_streaming activity and the stream coordinator             *)
(*     (services/streaming/{orchestrator,executor,notifier,types}.py),     *)
(*   - WorkflowService (services/workflow.py) on the stored instance,      *)
(*   - the completion-criteria registry (services/completion_criteria.py). *)
(***************************************************************************)
EXTENDS Integers, Sequences, FiniteSets, TLC

(***************************************************************************)
(* Bounds of the model.                                                    *)
(***************************************************************************)
MaxMsgs == 2
MaxChunks == 1
MaxRetries == 1
MaxFaults == 1
MaxText == 2
MaxCalls == 3
MaxFacts == 7
MaxItems == 2
MaxMin == 3

(***************************************************************************)
(* Values.                                                                 *)
(***************************************************************************)
None == "None"
RequestIds == {"r1", "r2"}
StepNames == {"greeting", "discovery", "brain_dump", "setup_complete"}
Absent == "absent"
Actions == {"complete_step", "stay", "need_input"}
NoData == {}
SomeData == {"k"}

\* Faulty variant of the step table: the last step points back to the first
ONBOARDING_STEPS_Cyclic ==
  [s \in StepNames |->
     CASE s = "greeting"       -> [agent |-> "greeter", next |-> "discovery"]
       [] s = "discovery"      -> [agent |-> "discovery", next |-> "brain_dump"]
       [] s = "brain_dump"     -> [agent |-> "inbox_collector", next |-> "setup_complete"]
       [] s = "setup_complete" -> [agent |-> "coordinator", next |-> "greeting"]]

\* ONBOARDING_STEPS: the "next" pointer of every step
ONBOARDING_STEPS ==
  [s \in StepNames |->
     CASE s = "greeting"       -> [agent |-> "greeter", next |-> "discovery"]
       [] s = "discovery"      -> [agent |-> "discovery", next |-> "brain_dump"]
       [] s = "brain_dump"     -> [agent |-> "inbox_collector", next |-> "setup_complete"]
       [] s = "setup_complete" -> [agent |-> "coordinator", next |-> None]]

\* dict.get(key, default) on a signal dict whose key may be missing
SignalGet(signal, key, default) ==
  IF signal[key] = Absent THEN default ELSE signal[key]

\* A context dict: the value under "step_data" (empty: no such key) and the
\* other top-level keys
EmptyContext == [step_data |-> << >>, keys |-> {}]

\* {**current, **update} on context dicts
MergeContext(current, update) ==
  [step_data |-> IF update.step_data = << >> THEN current.step_data ELSE update.step_data,
   keys |-> current.keys \cup update.keys]

NoMessage == [id |-> 0, request_id |-> None]
\* The locals memories and collections of _process_message, with the lookup
\* that failed inside its activity
NoLookups == [memories |-> << >>, collections |-> << >>, failed |-> {}]
NoAgentResult == [content |-> << >>,
                  workflow_signal |-> [action |-> Absent, data |-> NoData, reason |-> Absent],
                  error |-> None]
NoStreamingResult == [present |-> FALSE, error |-> None, content |-> << >>]
NoCall == [n |-> 0, op |-> None, rid |-> None, ret |-> None]

VARIABLES
  state,              \* OnboardingWorkflow.state (WorkflowState)
  pending_messages,   \* OnboardingWorkflow.pending_messages
  streaming_results,  \* StreamingMixin._streaming_results
  pc,                 \* position of OnboardingWorkflow.run
  message,            \* the message _process_message is working on
  lookups,            \* memories and collections loaded for that message
  agent_result,       \* agent_result of the message being processed
  submitted,          \* number of user messages signalled so far
  retries,            \* activity re-executions used so far
  faults,             \* failed signal RPCs so far
  started,            \* per message: has _process_message begun
  finished,           \* per message: has _process_message returned
  terminal,           \* per message: terminal events sent to the client
  completed_notified, \* number of workflow.completed events sent
  db,                 \* stored workflow_instances record
  orchs,              \* StreamingOrchestrator / StreamExecutor instances
  tasks,              \* background tasks running _run_stream
  signals,            \* per request id: streaming_complete signals accepted by the engine
  env,                \* state of the memory and storage collaborators
  calls,              \* direct calls on the orchestrator: their number, and the last one
  store               \* records created in the workflow_instances and messages collections

vars == <<state, pending_messages, streaming_results, pc, message, lookups, agent_result,
          submitted, retries, faults, started, finished, terminal,
          completed_notified, db, orchs, tasks, signals, calls, env, store>>

Msgs == 1..MaxMsgs

\* The state of a workflow whose run() has not started (self.state is None)
NoState == [current_step |-> None, status |-> None, steps_completed |-> << >>,
            context |-> EmptyContext]
NoRecord == [exists |-> FALSE, current_step |-> None, status |-> None,
             context |-> EmptyContext]

\* The first k steps of the next-pointer chain that starts at greeting
StepOrder == <<"greeting", "discovery", "brain_dump", "setup_complete">>
Prefix(k) == SubSeq(StepOrder, 1, k)

(***************************************************************************)
(* Completion-criteria registry (services/completion_criteria.py)          *)
(***************************************************************************)

\* The completion_criteria of the onboarding steps as the workflow
\* definition configures them: type and its min_facts / min_items parameter
STEP_CRITERIA ==
  [s \in StepNames |->
     CASE s = "greeting"       -> [type |-> "agent_signal", params |-> "given", min |-> 1]
       [] s = "discovery"      -> [type |-> "agent_signal_memory", params |-> "given", min |-> 3]
       [] s = "brain_dump"     -> [type |-> "agent_signal_widget", params |-> "given", min |-> 1]
       [] s = "setup_complete" -> [type |-> "auto", params |-> "given", min |-> 1]]

Min(a, b) == IF a <= b THEN a ELSE b

Satisfied(d) == [satisfied |-> TRUE, missing |-> {}, data |-> d]
Unsatisfied(m, d) == [satisfied |-> FALSE, missing |-> m, data |-> d]

\* Faulty variant of AgentSignalChecker.check: signal data is required
AgentSignalCheckerNeedsData(workflow_instance_id, user_id, signal_data, params) ==
  IF signal_data = NoData THEN Unsatisfied({"no data"}, {}) ELSE Satisfied({})

\* AgentSignalChecker.check and AutoCompleteChecker.check: no argument is read
AgentSignalChecker(workflow_instance_id, user_id, signal_data, params) == Satisfied({})
AutoCompleteChecker(workflow_instance_id, user_id, signal_data, params) == Satisfied({})

\* params.get("min_facts", 1) / params.get("min_items", 1): the configured
\* minimum, or the default when params does not hold the key
ParamsGet(criteria_config, default) ==
  IF criteria_config.params = "given" THEN criteria_config.min ELSE default

\* AgentSignalWithMemoryChecker.check; e is the state of the collaborators:
\* MemoryService.search returns at most limit facts, and [] when the query
\* fails inside the service
AgentSignalWithMemoryChecker(min_facts, e) ==
  IF e.mem_raises THEN Satisfied({"memory_check_error"})
  ELSE IF ~e.mem_available THEN Satisfied({"memory_check_skipped"})
  ELSE LET found == IF e.mem_query_fails THEN 0 ELSE Min(e.facts, min_facts + 5) IN
       IF found >= min_facts
         THEN Satisfied({"facts_count"})
         ELSE Unsatisfied({"Need at least min_facts facts"}, {"facts_count"})

\* PocketbaseService.list_records: one page of at most per_page records
PER_PAGE == 50
ListRecords(items) == Min(items, PER_PAGE)

\* AgentSignalWithWidgetChecker.check
AgentSignalWithWidgetChecker(min_items, e) ==
  IF e.list_raises THEN Satisfied({"widget_check_error"})
  ELSE IF ListRecords(e.items) >= min_items
         THEN Satisfied({"items_count"})
         ELSE Unsatisfied({"Need at least min_items items"}, {"items_count"})

CheckerTypes == {"agent_signal", "agent_signal_memory", "agent_signal_widget", "auto"}

\* A checker added with register_checker under the name "custom": what its
\* check() does
CustomCheckers == {"raises", "satisfied", "unsatisfied"}
CustomChecker(behaviour) ==
  IF behaviour = "satisfied" THEN Satisfied({}) ELSE Unsatisfied({"custom"}, {})

\* Faulty variant of the lookup: an unknown name selects the memory checker
GetCheckerDefaultsToMemory(name, e) ==
  IF name \in CheckerTypes THEN name
  ELSE IF name = "custom" /\ e.custom # None THEN "custom"
  ELSE "agent_signal_memory"

\* _checkers.get(criteria_type): the built-in checkers and the registered one
GetChecker(name, e) ==
  IF name \in CheckerTypes THEN name
  ELSE IF name = "custom" /\ e.custom # None THEN "custom"
  ELSE None

\* Faulty variant: no exception of a checker is caught
CheckerRaisesUncaught(checker, params, e) == FALSE

\* checker.check raises: the built-in checkers read params.get(...) outside
\* their try block, which fails when the configured params is null
CheckerRaises(checker, params, e) ==
  \/ checker \in {"agent_signal_memory", "agent_signal_widget"} /\ params = None
  \/ checker = "custom" /\ e.custom = "raises"

\* check_completion_criteria for instance, user and signal data: unknown
\* types fall back to agent_signal, and an exception of the checker becomes
\* an unsatisfied result
CheckCompletionCriteriaFor(criteria_config, workflow_instance_id, user_id, signal_data, e) ==
  LET criteria_type == IF criteria_config.type = Absent THEN "agent_signal"
                       ELSE criteria_config.type
      found == GetChecker(criteria_type, e)
      checker == IF found = None THEN "agent_signal" ELSE found
      params == criteria_config.params
  IN IF CheckerRaises(checker, params, e)
       THEN Unsatisfied({"Criteria check failed"}, {})
       ELSE CASE checker = "agent_signal" ->
                   AgentSignalChecker(workflow_instance_id, user_id, signal_data, params)
              [] checker = "agent_signal_memory" ->
                   AgentSignalWithMemoryChecker(ParamsGet(criteria_config, 1), e)
              [] checker = "agent_signal_widget" ->
                   AgentSignalWithWidgetChecker(ParamsGet(criteria_config, 1), e)
              [] checker = "auto" ->
                   AutoCompleteChecker(workflow_instance_id, user_id, signal_data, params)
              [] checker = "custom" -> CustomChecker(e.custom)

\* check_completion_criteria as the workflow calls it for its one instance
CheckCompletionCriteria(criteria_config, e) ==
  CheckCompletionCriteriaFor(criteria_config, "wf", "u1", NoData, e)

\* States of the memory and storage collaborators and of the registry
Env(available, facts, items) ==
  [mem_available |-> available, mem_raises |-> FALSE, mem_query_fails |-> FALSE,
   facts |-> facts, items |-> items, list_raises |-> FALSE, custom |-> None]

\* The collaborators the system runs against: too few facts and items for
\* the configured criteria, or enough of both
SystemEnvs == {Env(TRUE, 2, 0), Env(TRUE, 3, 1)}

(***************************************************************************)
(* OnboardingWorkflow                                                      *)
(***************************************************************************)

\* WorkflowState(...) built at the start of run(), and the record written by
\* the create_workflow_instance activity
InitialState == [current_step |-> "greeting", status |-> "active",
                 steps_completed |-> << >>, context |-> EmptyContext]
CreateWorkflowInstance(initial_step) ==
  [exists |-> TRUE, current_step |-> initial_step, status |-> "active",
   context |-> EmptyContext]

\* PocketbaseService.create_record: a POST that adds a new record to the
\* collection on every call
NoRecords == [workflow_instances |-> << >>, messages |-> << >>]
CreateRecord(records, collection, data) ==
  [records EXCEPT ![collection] = Append(@, data)]

\* The record the create_workflow_instance activity posts for this workflow
InstanceRecord == [temporal_workflow_id |-> "wf", status |-> "active"]

\* The save_message activity: one create_record in "messages"
SaveMessage(records, msg, role) ==
  CreateRecord(records, "messages", [id |-> msg.id, role |-> role])

\* Faulty variant of user_message: the handler also begins processing the
\* message it has just enqueued
UserMessageStartsProcessing(rid) ==
  /\ submitted < MaxMsgs
  /\ pc \notin {"done", "failed"}
  /\ submitted' = submitted + 1
  /\ pending_messages' = Append(pending_messages, [id |-> submitted + 1, request_id |-> rid])
  /\ started' = started \cup {submitted + 1}
  /\ UNCHANGED <<state, streaming_results, pc, message, lookups, agent_result, retries,
                 faults, finished, terminal, completed_notified, db, orchs,
                 tasks, signals, calls, env, store>>

\* @workflow.signal user_message: the handler only appends to the queue
UserMessage(rid) ==
  /\ submitted < MaxMsgs
  /\ pc \notin {"done", "failed"}
  /\ submitted' = submitted + 1
  /\ pending_messages' = Append(pending_messages, [id |-> submitted + 1, request_id |-> rid])
  /\ UNCHANGED <<state, streaming_results, pc, message, lookups, agent_result, retries,
                 faults, started, finished, terminal, completed_notified, db, orchs,
                 tasks, signals, calls, env, store>>

\* run(): initialisation up to the main loop
RunStart ==
  /\ pc = "init"
  /\ state' = InitialState
  /\ db' = CreateWorkflowInstance("greeting")
  /\ store' = CreateRecord(store, "workflow_instances", InstanceRecord)
  /\ pc' = "wait"
  /\ UNCHANGED <<pending_messages, streaming_results, message, lookups, agent_result, submitted,
                 retries, faults, started, finished, terminal,
                 completed_notified, orchs, tasks, signals, calls, env>>

\* Faulty variant of the pop: pending_messages.pop() takes the newest message
PopLast(queue) ==
  [head |-> queue[Len(queue)], rest |-> SubSeq(queue, 1, Len(queue) - 1)]

\* pending_messages.pop(0)
PopMessage(queue) == [head |-> Head(queue), rest |-> Tail(queue)]

\* run(): wait_condition, pop, and the head of _process_message
RunNextMessage ==
  /\ pc = "wait"
  /\ state.status = "active"
  /\ Len(pending_messages) > 0
  /\ LET popped == PopMessage(pending_messages) IN
       /\ message' = popped.head
       /\ lookups' = NoLookups
       /\ pending_messages' = popped.rest
       /\ started' = started \cup {popped.head.id}
       /\ IF state.current_step \in DOMAIN ONBOARDING_STEPS
            THEN /\ pc' = "save_user"
                 /\ finished' = finished
            ELSE /\ pc' = "wait"           \* "Unknown step": return
                 /\ finished' = finished \cup {popped.head.id}
  /\ UNCHANGED <<state, streaming_results, agent_result, submitted, retries,
                 faults, terminal, completed_notified, db, orchs, tasks, signals, calls, env, store>>

\* What an activity hands back to the workflow: a value, or the exception
\* it let through
Returned(value) == [raised |-> FALSE, value |-> value]
Raised == [raised |-> TRUE, value |-> << >>]

\* Faulty variant of search_memories: the failure of the search propagates
SearchMemoriesPropagates(search_fails) ==
  IF search_fails THEN Raised ELSE Returned(<<"memory">>)

\* search_memories activity: "except Exception: return []"
SearchMemories(search_fails) ==
  IF search_fails THEN Returned(<< >>) ELSE Returned(<<"memory">>)

\* get_user_collections activity: list_collections without the system
\* collections, "except Exception: return []"
GetUserCollections(list_fails) ==
  IF list_fails THEN Returned(<< >>) ELSE Returned(<<"collection">>)

\* _process_message: save_message(user), search_memories, get_user_collections;
\* the workflow has no exception handler, so an activity that raised would
\* fail the run
LoadContext ==
  /\ pc = "save_user"
  /\ store' = SaveMessage(store, message, "user")
  /\ \E search_fails, list_fails \in BOOLEAN :
       LET memories == SearchMemories(search_fails)
           collections == GetUserCollections(list_fails)
       IN IF memories.raised \/ collections.raised
            THEN /\ pc' = "failed"
                 /\ lookups' = lookups
            ELSE /\ pc' = IF message.request_id # None THEN "start_streaming"
                                                         ELSE "run_agent"
                 /\ lookups' = [memories |-> memories.value,
                                collections |-> collections.value,
                                failed |-> {n \in {"search_memories"} : search_fails}
                                           \cup {n \in {"get_user_collections"} : list_fails}]
  /\ UNCHANGED <<state, pending_messages, streaming_results, message, agent_result,
                 submitted, retries, faults, started, finished, terminal,
                 completed_notified, db, orchs, tasks, signals, calls, env>>

\* The results run_workflow_agent can return: the agent's content with its
\* signal (or {} when the response carries none), or a stay signal on failure
AgentSignals ==
  [action : Actions \cup {Absent}, data : {NoData, SomeData}, reason : {"given", Absent}]
AgentResponses ==
  {[content |-> <<"a">>, workflow_signal |-> sig, error |-> None] :
      sig \in {s \in AgentSignals :
                 /\ s.action = Absent => s.data = NoData
                 /\ s.action = Absent <=> s.reason = Absent}}

\* run_workflow_agent when the agent is not found (response is None) and when
\* running it raises: an apology with a stay signal whose reason, like the
\* metadata, carries the error
AgentFailure(error) ==
  [content |-> <<"e">>,
   workflow_signal |-> [action |-> "stay", data |-> NoData, reason |-> error],
   error |-> error]
AgentErrors == {"Agent not found", "raised"}
RunWorkflowAgentResults == AgentResponses \cup {AgentFailure(e) : e \in AgentErrors}

\* _process_without_streaming: thinking, run_workflow_agent with the
\* memories and collections, which are not used afterwards, message.new
ProcessWithoutStreaming ==
  /\ pc = "run_agent"
  /\ \E r \in RunWorkflowAgentResults : agent_result' = r
  /\ terminal' = [terminal EXCEPT ![message.id] = @ \cup {"message.new"}]
  /\ pc' = "save_assistant"
  /\ lookups' = NoLookups
  /\ UNCHANGED <<state, pending_messages, streaming_results, message, submitted,
                 retries, faults, started, finished, completed_notified, db,
                 orchs, tasks, signals, calls, env, store>>

\* _process_message: save_message(assistant), awaited
SaveAssistantMessage ==
  /\ pc = "save_assistant"
  /\ pc' = "add_memory"
  /\ store' = SaveMessage(store, message, "assistant")
  /\ UNCHANGED <<state, pending_messages, streaming_results, message, lookups, agent_result,
                 submitted, retries, faults, started, finished, terminal,
                 completed_notified, db, orchs, tasks, signals, calls, env>>

\* _process_message: execute_activity(add_memory) is awaited before
\* _process_signal is called; the activity returns the extracted memories,
\* or [] when adding fails, and the workflow ignores the value
AddMemory ==
  /\ pc = "add_memory"
  /\ pc' = "process_signal"
  /\ UNCHANGED <<state, pending_messages, streaming_results, message, lookups, agent_result,
                 submitted, retries, faults, started, finished, terminal,
                 completed_notified, db, orchs, tasks, signals, calls, env, store>>

\* _process_signal: "if data: step_data[current_step] = data"
StoreStepData(st, data) ==
  IF data # NoData
    THEN [st EXCEPT !.context.step_data = (st.current_step :> data) @@ @]
    ELSE st

\* Faulty variant of _transition_step: the completed step is not recorded
TransitionStepNoAppend(st) ==
  LET next_step == ONBOARDING_STEPS[st.current_step].next
  IN IF next_step = None
       THEN [st EXCEPT !.status = "completed"]
       ELSE [st EXCEPT !.current_step = next_step]

\* Faulty variant of _transition_step: current_step is set to the next step
\* even when there is none
TransitionStepAlwaysMoves(st) ==
  LET old_step == st.current_step
      next_step == ONBOARDING_STEPS[old_step].next
  IN [st EXCEPT !.steps_completed = Append(@, old_step),
                !.current_step = next_step,
                !.status = IF next_step = None THEN "completed" ELSE @]

\* _transition_step, the part that changes the workflow's own state
TransitionStep(st) ==
  LET old_step == st.current_step
      next_step == ONBOARDING_STEPS[old_step].next
  IN IF next_step = None
       THEN [st EXCEPT !.steps_completed = Append(@, old_step), !.status = "completed"]
       ELSE [st EXCEPT !.steps_completed = Append(@, old_step), !.current_step = next_step]

\* Faulty variant of _process_signal: need_input is handled like complete_step
ApplySignalNeedInputAdvances(st, signal) ==
  LET action == SignalGet(signal, "action", "stay")
      stored == StoreStepData(st, signal.data)
  IN IF action \in {"complete_step", "need_input"} THEN TransitionStep(stored) ELSE stored

\* _process_signal on the workflow's own state
ApplySignal(st, signal) ==
  LET action == SignalGet(signal, "action", "stay")
      data == signal.data
      stored == StoreStepData(st, data)
  IN IF action = "complete_step" THEN TransitionStep(stored) ELSE stored

\* Faulty variant of update_workflow_step: the stored step is advanced along
\* its next pointer instead of being set to new_step
UpdateWorkflowStepRelative(record, new_step, context_update) ==
  [record EXCEPT !.current_step = IF record.current_step \in StepNames
                                    THEN ONBOARDING_STEPS[record.current_step].next
                                    ELSE new_step,
                 !.context = MergeContext(record.context, context_update)]

\* update_workflow_step activity: read the record, merge the context, write
UpdateWorkflowStep(record, new_step, context_update) ==
  [record EXCEPT !.current_step = new_step,
                 !.context = MergeContext(record.context, context_update)]

\* complete_workflow activity
CompleteWorkflow(record) == [record EXCEPT !.status = "completed"]

\* _process_message: _process_signal with _transition_step and its
\* update_workflow_step activity, which returns False when the store fails
ProcessSignal ==
  /\ pc = "process_signal"
  /\ state' = ApplySignal(state, agent_result.workflow_signal)
  /\ IF state'.current_step # state.current_step
       THEN \E stored \in BOOLEAN :
              db' = IF stored
                      THEN UpdateWorkflowStep(db, state'.current_step, state'.context)
                      ELSE db
       ELSE db' = db
  /\ finished' = finished \cup {message.id}
  /\ message' = NoMessage
  /\ agent_result' = NoAgentResult
  /\ pc' = "wait"
  /\ UNCHANGED <<pending_messages, streaming_results, lookups, submitted, retries, faults,
                 started, terminal, completed_notified, orchs, tasks, signals, calls, env, store>>

\* run(): the loop has ended; complete_workflow (False when the store fails)
\* and the workflow.completed notification
RunComplete ==
  /\ pc = "wait"
  /\ state.status # "active"
  /\ \E stored \in BOOLEAN : db' = IF stored THEN CompleteWorkflow(db) ELSE db
  /\ completed_notified' = completed_notified + 1
  /\ pc' = "done"
  /\ UNCHANGED <<state, pending_messages, streaming_results, message, lookups, agent_result,
                 submitted, retries, faults, started, finished, terminal, orchs, tasks,
                 signals, calls, env, store>>

(***************************************************************************)
(* Stream coordinator: StreamingOrchestrator, StreamExecutor, StreamNotifier *)
(***************************************************************************)

\* StreamingOrchestrator.__init__ with its StreamExecutor: _active_streams
\* maps a request id to its task, _active_states to the task whose
\* StreamState object is registered (0: no entry)
NewOrchestrator ==
  [active_streams |-> [r \in RequestIds |-> 0],
   active_states |-> [r \in RequestIds |-> 0]]

\* The stream.error event notify_error sends to the client
StreamError(error, recoverable) == [error |-> error, recoverable |-> recoverable]

\* asyncio.create_task(self._run_stream(request, deps)); acc, is_complete
\* and error are the fields of the StreamState the run creates; errors are
\* the stream.error events the run has sent and signalled the payloads of
\* its streaming_complete signals the engine has accepted
NewTask(o, rid, m) ==
  [orch |-> o, request_id |-> rid, msg |-> m, pc |-> "created", acc |-> << >>,
   is_complete |-> FALSE, error |-> None, cancel |-> FALSE, sent |-> << >>,
   content |-> << >>, deltas |-> << >>, errors |-> << >>, signalled |-> << >>]

\* Faulty variant of start_stream: no check for an already active stream
StartStreamUnchecked(os, ts, o, rid, m) ==
  [orchs |-> [os EXCEPT ![o].active_streams[rid] = Len(ts) + 1],
   tasks |-> Append(ts, NewTask(o, rid, m))]

\* StreamingOrchestrator.start_stream
StartStream(os, ts, o, rid, m) ==
  IF os[o].active_streams[rid] # 0
    THEN [orchs |-> os, tasks |-> ts]
    ELSE [orchs |-> [os EXCEPT ![o].active_streams[rid] = Len(ts) + 1],
          tasks |-> Append(ts, NewTask(o, rid, m))]

\* Faulty variant of StreamExecutor.cancel: the state is marked failed but
\* stays registered
ExecutorCancelKeepsState(os, ts, o, rid) ==
  LET owner == os[o].active_states[rid] IN
  IF owner # 0
    THEN [orchs |-> os,
          tasks |-> [ts EXCEPT ![owner].is_complete = TRUE,
                               ![owner].error = "Cancelled by user"],
          found |-> TRUE]
    ELSE [orchs |-> os, tasks |-> ts, found |-> FALSE]

\* StreamExecutor.cancel: pop the state and mark it failed
ExecutorCancel(os, ts, o, rid) ==
  LET owner == os[o].active_states[rid] IN
  IF owner # 0
    THEN [orchs |-> [os EXCEPT ![o].active_states[rid] = 0],
          tasks |-> [ts EXCEPT ![owner].is_complete = TRUE,
                               ![owner].error = "Cancelled by user"],
          found |-> TRUE]
    ELSE [orchs |-> os, tasks |-> ts, found |-> FALSE]

\* Faulty variant of cancel_stream: the entry and the executor state are
\* removed but the background task is not cancelled
CancelStreamTaskNotCancelled(os, ts, o, rid) ==
  LET task == os[o].active_streams[rid] IN
  IF task # 0
    THEN LET popped == [os EXCEPT ![o].active_streams[rid] = 0]
             ex == ExecutorCancel(popped, ts, o, rid)
         IN [orchs |-> ex.orchs, tasks |-> ex.tasks, found |-> TRUE]
    ELSE [orchs |-> os, tasks |-> ts, found |-> FALSE]

\* StreamingOrchestrator.cancel_stream
CancelStream(os, ts, o, rid) ==
  LET task == os[o].active_streams[rid] IN
  IF task # 0
    THEN LET popped == [os EXCEPT ![o].active_streams[rid] = 0]
             cancelled == [ts EXCEPT ![task].cancel = (ts[task].pc # "done")]
             ex == ExecutorCancel(popped, cancelled, o, rid)
         IN [orchs |-> ex.orchs, tasks |-> ex.tasks, found |-> TRUE]
    ELSE [orchs |-> os, tasks |-> ts, found |-> FALSE]

\* StreamingMixin.streaming_complete with StreamingResult.from_dict
StreamingComplete(results, result) ==
  [results EXCEPT ![result.request_id] =
     [present |-> TRUE, error |-> result.error, content |-> result.content]]

\* The client events of a run that end the client's wait for a message
Terminal(term, m, kind) ==
  IF m \in DOMAIN term THEN [term EXCEPT ![m] = @ \cup {kind}] ELSE term

\* "finally: self._active_streams.pop(request.request_id, None)"
FinallyPop(os, o, rid) == [os EXCEPT ![o].active_streams[rid] = 0]

\* The frame of a step of a background task
TaskFrame == <<state, pending_messages, pc, message, lookups, agent_result, submitted, retries,
               started, finished, completed_notified, db, calls, env, store>>

\* A task cancelled before its first step never enters _run_stream: neither
\* the except clauses nor the finally clause run
TaskCancelledUnstarted(t) ==
  /\ tasks[t].pc = "created" /\ tasks[t].cancel
  /\ tasks' = [tasks EXCEPT ![t].pc = "done", ![t].cancel = FALSE]
  /\ UNCHANGED <<orchs, streaming_results, signals, terminal, faults>>
  /\ UNCHANGED TaskFrame

\* _run_stream: notify_start
TaskNotifyStart(t) ==
  /\ tasks[t].pc = "created" /\ ~tasks[t].cancel
  /\ tasks' = [tasks EXCEPT ![t].pc = "execute", ![t].sent = Append(@, "stream.start")]
  /\ UNCHANGED <<orchs, streaming_results, signals, terminal, faults>>
  /\ UNCHANGED TaskFrame

\* StreamExecutor.execute, up to the open model stream: the StreamState is
\* created and registered under the request id
TaskExecute(t) ==
  /\ tasks[t].pc = "execute" /\ ~tasks[t].cancel
  /\ orchs' = [orchs EXCEPT ![tasks[t].orch].active_states[tasks[t].request_id] = t]
  /\ tasks' = [tasks EXCEPT ![t].pc = "streaming"]
  /\ UNCHANGED <<streaming_results, signals, terminal, faults>>
  /\ UNCHANGED TaskFrame

\* Faulty variant of update_from_accumulated: the snapshot is sent as the delta
UpdateFromAccumulatedWhole(acc, new_accumulated) ==
  [delta |-> new_accumulated, accumulated |-> new_accumulated]

\* StreamState.update_from_accumulated: delta = new_accumulated[len(old):]
UpdateFromAccumulated(acc, new_accumulated) ==
  [delta |-> SubSeq(new_accumulated, Len(acc) + 1, Len(new_accumulated)),
   accumulated |-> new_accumulated]

\* execute yields a chunk and _run_stream sends it: notify_chunk
TaskChunk(t) ==
  /\ tasks[t].pc = "streaming" /\ ~tasks[t].cancel
  /\ Len(tasks[t].acc) < MaxChunks
  /\ LET chunk == UpdateFromAccumulated(tasks[t].acc, Append(tasks[t].acc, "a")) IN
       tasks' = [tasks EXCEPT ![t].acc = chunk.accumulated,
                              ![t].deltas = @ \o chunk.delta,
                              ![t].sent = Append(@, "stream.chunk")]
  /\ UNCHANGED <<orchs, streaming_results, signals, terminal, faults>>
  /\ UNCHANGED TaskFrame

\* execute raises (agent not found, model error): state.fail, and
\* _run_stream's "except Exception" sends stream.error (not recoverable)
TaskFail(t) ==
  /\ tasks[t].pc = "streaming" /\ ~tasks[t].cancel
  /\ tasks' = [tasks EXCEPT ![t].is_complete = TRUE, ![t].error = "failed",
                            ![t].pc = "error_signal",
                            ![t].sent = Append(@, "stream.error"),
                            ![t].errors = Append(@, StreamError("failed", FALSE))]
  /\ terminal' = Terminal(terminal, tasks[t].msg, "stream.error")
  /\ UNCHANGED <<orchs, streaming_results, signals, faults>>
  /\ UNCHANGED TaskFrame

\* Faulty variant of get_result: the state is not removed
GetResultKeepsState(os, ts, o, rid) ==
  LET owner == os[o].active_states[rid] IN
  IF owner = 0
    THEN [found |-> FALSE, orchs |-> os, tasks |-> ts, content |-> << >>]
    ELSE [found |-> TRUE, orchs |-> os,
          tasks |-> [ts EXCEPT ![owner].is_complete = TRUE],
          content |-> ts[owner].acc]

\* StreamExecutor.get_result: the state registered under the request id,
\* completed and removed; found is FALSE where the code raises ValueError
GetResult(os, ts, o, rid) ==
  LET owner == os[o].active_states[rid] IN
  IF owner = 0
    THEN [found |-> FALSE, orchs |-> os, tasks |-> ts, content |-> << >>]
    ELSE [found |-> TRUE,
          orchs |-> [os EXCEPT ![o].active_states[rid] = 0],
          tasks |-> [ts EXCEPT ![owner].is_complete = TRUE],
          content |-> ts[owner].acc]

\* execute is exhausted: get_result, then notify_complete sends stream.end;
\* a ValueError of get_result goes to "except Exception"
TaskFinish(t) ==
  /\ tasks[t].pc = "streaming" /\ ~tasks[t].cancel
  /\ LET o == tasks[t].orch
         rid == tasks[t].request_id
         got == GetResult(orchs, tasks, o, rid)
     IN IF got.found
          THEN /\ orchs' = got.orchs
               /\ tasks' = [got.tasks EXCEPT ![t].pc = "complete_signal",
                                             ![t].content = got.content,
                                             ![t].sent = Append(@, "stream.end")]
               /\ terminal' = Terminal(terminal, tasks[t].msg, "stream.end")
          ELSE /\ orchs' = orchs
               /\ tasks' = [tasks EXCEPT ![t].pc = "error_signal",
                                         ![t].error = "No active state",
                                         ![t].sent = Append(@, "stream.error"),
                                         ![t].errors =
                                            Append(@, StreamError("No active state", FALSE))]
               /\ terminal' = Terminal(terminal, tasks[t].msg, "stream.error")
  /\ UNCHANGED <<streaming_results, signals, faults>>
  /\ UNCHANGED TaskFrame

\* TemporalSignalerAdapter.signal_streaming_complete: the engine accepts the
\* signal while the workflow is open; the RPC can fail
SignalAccepted == pc # "done"
SignalCanFail == pc = "done" \/ faults < MaxFaults
SignalFailed == faults' = IF pc = "done" THEN faults ELSE faults + 1

\* Faulty variant of the payload of notify_complete: the content is left out
NotifyCompleteSignalNoContent(rid, content) ==
  [request_id |-> rid, content |-> << >>, error |-> None]

\* The payloads notify_complete and notify_error hand to
\* signal_streaming_complete
NotifyCompleteSignal(rid, content) ==
  [request_id |-> rid, content |-> content, error |-> None]
NotifyErrorSignal(rid, error) ==
  [request_id |-> rid, content |-> << >>, error |-> error]

\* notify_complete: signal the workflow with the result; when the RPC raises,
\* "except Exception" sends stream.error
TaskCompleteSignal(t) ==
  /\ tasks[t].pc = "complete_signal" /\ ~tasks[t].cancel
  /\ LET rid == tasks[t].request_id IN
     \/ /\ SignalAccepted
        /\ streaming_results' = StreamingComplete(streaming_results,
               NotifyCompleteSignal(rid, tasks[t].content))
        /\ signals' = [signals EXCEPT ![rid] = @ + 1]
        /\ orchs' = FinallyPop(orchs, tasks[t].orch, rid)
        /\ tasks' = [tasks EXCEPT ![t].pc = "done",
                                  ![t].signalled =
                                     Append(@, NotifyCompleteSignal(rid, tasks[t].content))]
        /\ UNCHANGED <<terminal, faults>>
     \/ /\ SignalCanFail
        /\ SignalFailed
        /\ tasks' = [tasks EXCEPT ![t].pc = "error_signal", ![t].error = "signal failed",
                                  ![t].sent = Append(@, "stream.error"),
                                  ![t].errors = Append(@, StreamError("signal failed", FALSE))]
        /\ terminal' = Terminal(terminal, tasks[t].msg, "stream.error")
        /\ UNCHANGED <<orchs, streaming_results, signals>>
  /\ UNCHANGED TaskFrame

\* notify_error: signal the workflow with the error; when the RPC raises the
\* exception leaves _run_stream; "finally" pops the entry either way
TaskErrorSignal(t) ==
  /\ tasks[t].pc = "error_signal" /\ ~tasks[t].cancel
  /\ LET rid == tasks[t].request_id IN
     \/ /\ SignalAccepted
        /\ streaming_results' = StreamingComplete(streaming_results,
               NotifyErrorSignal(rid, tasks[t].error))
        /\ signals' = [signals EXCEPT ![rid] = @ + 1]
        /\ faults' = faults
        /\ tasks' = [tasks EXCEPT ![t].pc = "done",
                                  ![t].signalled =
                                     Append(@, NotifyErrorSignal(rid, tasks[t].error))]
     \/ /\ SignalCanFail
        /\ SignalFailed
        /\ tasks' = [tasks EXCEPT ![t].pc = "done"]
        /\ UNCHANGED <<streaming_results, signals>>
  /\ orchs' = FinallyPop(orchs, tasks[t].orch, tasks[t].request_id)
  /\ UNCHANGED terminal
  /\ UNCHANGED TaskFrame

\* CancelledError raised at the await the task is suspended in: inside the
\* try body "except asyncio.CancelledError" sends stream.error (recoverable);
\* inside a handler it leaves _run_stream through "finally"
TaskCancelled(t) ==
  /\ tasks[t].cancel
  /\ tasks[t].pc \in {"execute", "streaming", "complete_signal", "error_signal"}
  /\ IF tasks[t].pc = "error_signal"
       THEN /\ tasks' = [tasks EXCEPT ![t].pc = "done", ![t].cancel = FALSE]
            /\ orchs' = FinallyPop(orchs, tasks[t].orch, tasks[t].request_id)
            /\ terminal' = terminal
       ELSE /\ tasks' = [tasks EXCEPT ![t].pc = "error_signal", ![t].cancel = FALSE,
                                      ![t].error = "Stream cancelled",
                                      ![t].sent = Append(@, "stream.error"),
                                      ![t].errors =
                                         Append(@, StreamError("Stream cancelled", TRUE))]
            /\ orchs' = orchs
            /\ terminal' = Terminal(terminal, tasks[t].msg, "stream.error")
  /\ UNCHANGED <<streaming_results, signals, faults>>
  /\ UNCHANGED TaskFrame

TaskStep(t) ==
  \/ TaskCancelledUnstarted(t)
  \/ TaskNotifyStart(t)
  \/ TaskExecute(t)
  \/ TaskChunk(t)
  \/ TaskFail(t)
  \/ TaskFinish(t)
  \/ TaskCompleteSignal(t)
  \/ TaskErrorSignal(t)
  \/ TaskCancelled(t)

(***************************************************************************)
(* The streaming path of OnboardingWorkflow                                *)
(***************************************************************************)

\* start_streaming activity: a fresh StreamExecutor, StreamNotifier and
\* StreamingOrchestrator are built on every execution, then start_stream;
\* any exception is caught and the activity returns False
StartStreamingActivity(os, ts, rid, m, built) ==
  IF built
    THEN StartStream(Append(os, NewOrchestrator), ts, Len(os) + 1, rid, m)
    ELSE [orchs |-> os, tasks |-> ts]

\* _process_with_streaming: execute_activity(start_streaming) with the
\* memories and collections, which are not used afterwards; the return value
\* is ignored
StartStreaming ==
  /\ pc = "start_streaming"
  /\ \E built \in BOOLEAN :
       LET r == StartStreamingActivity(orchs, tasks, message.request_id, message.id, built)
       IN /\ orchs' = r.orchs
          /\ tasks' = r.tasks
  /\ pc' = "wait_stream"
  /\ lookups' = NoLookups
  /\ UNCHANGED <<state, pending_messages, streaming_results, message, agent_result,
                 submitted, retries, faults, started, finished, terminal,
                 completed_notified, db, signals, calls, env, store>>

\* The engine runs an activity at least once: an execution of start_streaming
\* whose completion it does not record (timeout, lost response) is followed
\* by another execution
StartStreamingRetried ==
  /\ pc = "start_streaming"
  /\ retries < MaxRetries
  /\ retries' = retries + 1
  /\ \E built \in BOOLEAN :
       LET r == StartStreamingActivity(orchs, tasks, message.request_id, message.id, built)
       IN /\ orchs' = r.orchs
          /\ tasks' = r.tasks
  /\ UNCHANGED <<state, pending_messages, streaming_results, pc, message, lookups, agent_result,
                 submitted, faults, started, finished, terminal, completed_notified, db,
                 signals, calls, env, store>>

\* StreamingMixin.wait_for_stream after its wait_condition is satisfied:
\* pop the result
WaitForStream(results, rid) ==
  [result |-> results[rid], results |-> [results EXCEPT ![rid] = NoStreamingResult]]

\* Faulty variant of the conversion: a stream with content completes the step
StreamingAgentResultCompletes(streaming_result) ==
  [content |-> streaming_result.content,
   workflow_signal |-> [action |-> IF streaming_result.content # << >>
                                     THEN "complete_step" ELSE "stay",
                        data |-> NoData, reason |-> ""],
   error |-> None]

\* _process_with_streaming: the result becomes an AgentResult whose signal
\* is always stay with empty data
StreamingAgentResult(streaming_result) ==
  [content |-> streaming_result.content,
   workflow_signal |-> [action |-> "stay", data |-> NoData, reason |-> ""],
   error |-> None]

ProcessWithStreaming ==
  /\ pc = "wait_stream"
  /\ streaming_results[message.request_id].present
  /\ LET w == WaitForStream(streaming_results, message.request_id) IN
       /\ streaming_results' = w.results
       /\ agent_result' = StreamingAgentResult(w.result)
  /\ pc' = "save_assistant"
  /\ UNCHANGED <<state, pending_messages, message, lookups, submitted, retries, faults, started,
                 finished, terminal, completed_notified, db, orchs, tasks, signals, calls, env, store>>

\* wait_for_stream: the wait_condition times out (stream_completion_timeout)
\* and asyncio.TimeoutError leaves _process_message and run()
WaitTimeout ==
  /\ pc = "wait_stream"
  /\ ~streaming_results[message.request_id].present
  /\ pc' = "failed"
  /\ UNCHANGED <<state, pending_messages, streaming_results, message, lookups, agent_result,
                 submitted, retries, faults, started, finished, terminal,
                 completed_notified, db, orchs, tasks, signals, calls, env, store>>

(***************************************************************************)
(* The system: one workflow instance with its background streams           *)
(***************************************************************************)

\* An instance as run() creates it, or an instance that earlier, fully
\* processed messages have already advanced by k accepted complete_step
\* signals (the summary of a longer run)
Resumed(k) ==
  /\ pc = "wait"
  /\ state = [current_step |-> StepOrder[k + 1], status |-> "active",
              steps_completed |-> Prefix(k), context |-> EmptyContext]
  /\ db = [exists |-> TRUE, current_step |-> StepOrder[k + 1], status |-> "active",
           context |-> EmptyContext]
  /\ store = CreateRecord(NoRecords, "workflow_instances", InstanceRecord)

Fresh ==
  /\ pc = "init"
  /\ state = NoState
  /\ db = NoRecord
  /\ store = NoRecords

Init ==
  /\ Fresh \/ \E k \in 1..3 : Resumed(k)
  /\ pending_messages = << >>
  /\ streaming_results = [r \in RequestIds |-> NoStreamingResult]
  /\ message = NoMessage
  /\ lookups = NoLookups
  /\ agent_result = NoAgentResult
  /\ submitted = 0
  /\ retries = 0
  /\ faults = 0
  /\ started = {}
  /\ finished = {}
  /\ terminal = [m \in Msgs |-> {}]
  /\ completed_notified = 0
  /\ orchs = << >>
  /\ tasks = << >>
  /\ signals = [r \in RequestIds |-> 0]
  /\ calls = NoCall
  /\ env \in SystemEnvs

\* The steps of a background task of the system: nothing there calls cancel_stream
SystemTaskStep ==
  \E t \in DOMAIN tasks :
    \/ TaskNotifyStart(t)
    \/ TaskExecute(t)
    \/ TaskChunk(t)
    \/ TaskFail(t)
    \/ TaskFinish(t)
    \/ TaskCompleteSignal(t)
    \/ TaskErrorSignal(t)

Next ==
  \/ \E rid \in RequestIds \cup {None} : UserMessage(rid)
  \/ RunStart
  \/ RunNextMessage
  \/ LoadContext
  \/ ProcessWithoutStreaming
  \/ StartStreaming
  \/ ProcessWithStreaming
  \/ WaitTimeout
  \/ SaveAssistantMessage
  \/ AddMemory
  \/ ProcessSignal
  \/ RunComplete
  \/ SystemTaskStep

Spec == Init /\ [][Next]_vars

\* The system under at-least-once execution of the start_streaming activity
NextRetry == Next \/ StartStreamingRetried
SpecRetry == Init /\ [][NextRetry]_vars

\* At-least-once execution of the storage activities: an attempt posts its
\* record, its completion never reaches the engine (worker loss or
\* start_to_close_timeout), and the engine schedules the activity again
CreateWorkflowInstanceRetried ==
  /\ pc = "init"
  /\ retries < MaxRetries
  /\ retries' = retries + 1
  /\ store' = CreateRecord(store, "workflow_instances", InstanceRecord)
  /\ UNCHANGED <<state, pending_messages, streaming_results, pc, message, lookups, agent_result,
                 submitted, faults, started, finished, terminal, completed_notified, db,
                 orchs, tasks, signals, calls, env>>

SaveUserMessageRetried ==
  /\ pc = "save_user"
  /\ retries < MaxRetries
  /\ retries' = retries + 1
  /\ store' = SaveMessage(store, message, "user")
  /\ UNCHANGED <<state, pending_messages, streaming_results, pc, message, lookups, agent_result,
                 submitted, faults, started, finished, terminal, completed_notified, db,
                 orchs, tasks, signals, calls, env>>

SaveAssistantMessageRetried ==
  /\ pc = "save_assistant"
  /\ retries < MaxRetries
  /\ retries' = retries + 1
  /\ store' = SaveMessage(store, message, "assistant")
  /\ UNCHANGED <<state, pending_messages, streaming_results, pc, message, lookups, agent_result,
                 submitted, faults, started, finished, terminal, completed_notified, db,
                 orchs, tasks, signals, calls, env>>

NextReplay ==
  \/ Next
  \/ CreateWorkflowInstanceRetried
  \/ SaveUserMessageRetried
  \/ SaveAssistantMessageRetried
SpecReplay == Init /\ [][NextReplay]_vars

(***************************************************************************)
(* One StreamingOrchestrator driven directly through its public methods    *)
(***************************************************************************)

OrchFrame == <<state, pending_messages, pc, message, lookups, agent_result, submitted, retries,
               started, finished, completed_notified, db, streaming_results, signals,
               terminal, faults, env, store>>

\* await orchestrator.start_stream(request, deps)
CallStartStream(rid) ==
  /\ calls.n < MaxCalls
  /\ LET r == StartStream(orchs, tasks, 1, rid, 0) IN
       /\ orchs' = r.orchs
       /\ tasks' = r.tasks
  /\ calls' = [n |-> calls.n + 1, op |-> "start_stream", rid |-> rid,
               ret |-> IF orchs[1].active_streams[rid] # 0
                         THEN "already active, ignoring duplicate"
                         ELSE None]
  /\ UNCHANGED OrchFrame

\* await orchestrator.cancel_stream(request_id)
CallCancelStream(rid) ==
  /\ calls.n < MaxCalls
  /\ LET r == CancelStream(orchs, tasks, 1, rid) IN
       /\ orchs' = r.orchs
       /\ tasks' = r.tasks
       /\ calls' = [n |-> calls.n + 1, op |-> "cancel_stream", rid |-> rid, ret |-> r.found]
  /\ UNCHANGED OrchFrame

InitOrch ==
  /\ pc = "detached"
  /\ state = NoState
  /\ db = NoRecord
  /\ pending_messages = << >>
  /\ streaming_results = [r \in RequestIds |-> NoStreamingResult]
  /\ message = NoMessage
  /\ lookups = NoLookups
  /\ agent_result = NoAgentResult
  /\ submitted = 0
  /\ retries = 0
  /\ faults = 0
  /\ started = {}
  /\ finished = {}
  /\ terminal = [m \in Msgs |-> {}]
  /\ completed_notified = 0
  /\ orchs = <<NewOrchestrator>>
  /\ tasks = << >>
  /\ signals = [r \in RequestIds |-> 0]
  /\ calls = NoCall
  /\ env = Env(TRUE, 0, 0)
  /\ store = NoRecords

NextOrch ==
  \/ \E rid \in RequestIds : CallStartStream(rid)
  \/ \E rid \in RequestIds : CallCancelStream(rid)
  \/ \E t \in DOMAIN tasks : TaskStep(t)

SpecOrch == InitOrch /\ [][NextOrch]_vars

(***************************************************************************)
(* One StreamExecutor driven directly: execute, get_result, cancel         *)
(***************************************************************************)

\* The text a model stream can add between two snapshots
Growth == {<<"a">>, <<"a", "b">>}

\* gen = executor.execute(request, deps): the async generator of one run;
\* as under its orchestrator, the executor is given one run per request id
\* at a time
CallExecute(rid) ==
  /\ calls.n < MaxCalls
  /\ \A t \in DOMAIN tasks :
       tasks[t].request_id = rid => tasks[t].pc \notin {"execute", "streaming"}
  /\ tasks' = Append(tasks, [NewTask(1, rid, 0) EXCEPT !.pc = "execute"])
  /\ calls' = [n |-> calls.n + 1, op |-> "execute", rid |-> rid, ret |-> None]
  /\ UNCHANGED orchs
  /\ UNCHANGED OrchFrame

\* The caller takes the next chunk of a run: stream_text() yields a snapshot
\* that extends the previous one, and update_from_accumulated makes the chunk
ExecChunk(t, grown) ==
  /\ tasks[t].pc = "streaming"
  /\ Len(tasks[t].acc) + Len(grown) <= MaxText
  /\ LET chunk == UpdateFromAccumulated(tasks[t].acc, tasks[t].acc \o grown) IN
       tasks' = [tasks EXCEPT ![t].acc = chunk.accumulated,
                              ![t].deltas = @ \o chunk.delta,
                              ![t].sent = Append(@, "stream.chunk")]
  /\ UNCHANGED <<orchs, calls>>
  /\ UNCHANGED OrchFrame

\* execute raises: "except Exception: state.fail(str(e)); raise"
ExecRaises(t) ==
  /\ tasks[t].pc = "streaming"
  /\ tasks' = [tasks EXCEPT ![t].is_complete = TRUE, ![t].error = "failed",
                            ![t].pc = "raised"]
  /\ UNCHANGED <<orchs, calls>>
  /\ UNCHANGED OrchFrame

\* The model stream ends and execute returns
ExecExhausted(t) ==
  /\ tasks[t].pc = "streaming"
  /\ tasks' = [tasks EXCEPT ![t].pc = "exhausted"]
  /\ UNCHANGED <<orchs, calls>>
  /\ UNCHANGED OrchFrame

\* executor.get_result(request_id, agent_name)
CallGetResult(rid) ==
  /\ calls.n < MaxCalls
  /\ LET r == GetResult(orchs, tasks, 1, rid) IN
       /\ orchs' = r.orchs
       /\ tasks' = r.tasks
       /\ calls' = [n |-> calls.n + 1, op |-> "get_result", rid |-> rid,
                    ret |-> [found |-> r.found, content |-> r.content]]
  /\ UNCHANGED OrchFrame

\* executor.cancel(request_id)
CallExecutorCancel(rid) ==
  /\ calls.n < MaxCalls
  /\ LET r == ExecutorCancel(orchs, tasks, 1, rid) IN
       /\ orchs' = r.orchs
       /\ tasks' = r.tasks
       /\ calls' = [n |-> calls.n + 1, op |-> "cancel", rid |-> rid,
                    ret |-> [found |-> r.found, content |-> << >>]]
  /\ UNCHANGED OrchFrame

NextExec ==
  \/ \E rid \in RequestIds : CallExecute(rid)
  \/ \E t \in DOMAIN tasks : TaskExecute(t)
  \/ \E t \in DOMAIN tasks, grown \in Growth : ExecChunk(t, grown)
  \/ \E t \in DOMAIN tasks : ExecRaises(t)
  \/ \E t \in DOMAIN tasks : ExecExhausted(t)
  \/ \E rid \in RequestIds : CallGetResult(rid)
  \/ \E rid \in RequestIds : CallExecutorCancel(rid)

SpecExec == InitOrch /\ [][NextExec]_vars

(***************************************************************************)
(* WorkflowService (services/workflow.py) on the stored instance           *)
(***************************************************************************)

NoCriteriaResult == [evaluated |-> FALSE, satisfied |-> FALSE, missing |-> {}, data |-> {}]
Evaluated(r) ==
  [evaluated |-> TRUE, satisfied |-> r.satisfied, missing |-> r.missing, data |-> r.data]

\* WorkflowService.update_context; stored is FALSE when update_record fails
UpdateContext(record, data, stored) ==
  IF record.exists /\ stored
    THEN [record EXCEPT !.context.keys = @ \cup data]
    ELSE record

\* WorkflowService.can_transition
CanTransition(record, to_step) ==
  /\ record.exists
  /\ record.status = "active"
  /\ record.current_step \in StepNames
  /\ ONBOARDING_STEPS[record.current_step].next = to_step

\* WorkflowService.transition: the target step is final when it has no next step
Transition(record, to_step, data, stored) ==
  IF ~CanTransition(record, to_step) \/ ~stored
    THEN [record |-> record, ok |-> FALSE]
    ELSE LET is_final == ~(to_step \in StepNames /\ ONBOARDING_STEPS[to_step].next # None)
         IN [record |-> [record EXCEPT !.current_step = to_step,
                                       !.context = MergeContext(record.context, data),
                                       !.status = IF is_final THEN "completed" ELSE @],
             ok |-> TRUE]

\* WorkflowService.pause_workflow / resume_workflow / complete_workflow
PauseWorkflow(record, stored) ==
  IF record.exists /\ stored THEN [record EXCEPT !.status = "paused"] ELSE record
ResumeWorkflow(record, stored) ==
  IF record.exists /\ stored THEN [record EXCEPT !.status = "active"] ELSE record
ServiceCompleteWorkflow(record, stored) ==
  IF record.exists /\ stored THEN [record EXCEPT !.status = "completed"] ELSE record

\* Faulty variant of process_agent_signal: the criteria result is computed
\* but does not gate the transition
ProcessAgentSignalUngated(record, signal, e, stored) ==
  LET action == SignalGet(signal, "action", "stay")
      refused(cr) == [record |-> record, transitioned |-> FALSE, new_step |-> None,
                      criteria_result |-> cr]
  IN IF action # "complete_step"
       THEN [record |-> IF signal.data # NoData
                          THEN UpdateContext(record, signal.data, stored)
                          ELSE record,
             transitioned |-> FALSE, new_step |-> None,
             criteria_result |-> NoCriteriaResult]
     ELSE IF ~record.exists \/ record.current_step \notin StepNames
       THEN refused(NoCriteriaResult)
     ELSE LET cr == Evaluated(CheckCompletionCriteria(STEP_CRITERIA[record.current_step], e))
              next_step == ONBOARDING_STEPS[record.current_step].next
              moved == Transition(record, next_step, EmptyContext, stored)
          IN IF next_step = None
               THEN [record |-> ServiceCompleteWorkflow(record, stored),
                     transitioned |-> TRUE, new_step |-> None, criteria_result |-> cr]
             ELSE IF moved.ok
               THEN [record |-> moved.record, transitioned |-> TRUE,
                     new_step |-> next_step, criteria_result |-> cr]
               ELSE refused(cr)

\* WorkflowService.process_agent_signal: the record afterwards and the
\* returned (transitioned, new_step, criteria_result)
ProcessAgentSignal(record, signal, e, stored) ==
  LET action == SignalGet(signal, "action", "stay")
      refused(cr) == [record |-> record, transitioned |-> FALSE, new_step |-> None,
                      criteria_result |-> cr]
  IN IF action # "complete_step"
       THEN [record |-> IF signal.data # NoData
                          THEN UpdateContext(record, signal.data, stored)
                          ELSE record,
             transitioned |-> FALSE, new_step |-> None,
             criteria_result |-> NoCriteriaResult]
     ELSE IF ~record.exists \/ record.current_step \notin StepNames
       THEN refused(NoCriteriaResult)
     ELSE LET cr == Evaluated(CheckCompletionCriteria(STEP_CRITERIA[record.current_step], e))
              next_step == ONBOARDING_STEPS[record.current_step].next
              step_data == (record.current_step :>
                              ({"completed_at"} \cup cr.data \cup signal.data))
                           @@ record.context.step_data
              moved == Transition(record, next_step,
                                  [step_data |-> step_data, keys |-> {}], stored)
          IN IF ~cr.satisfied THEN refused(cr)
             ELSE IF next_step = None
               THEN [record |-> ServiceCompleteWorkflow(record, stored),
                     transitioned |-> TRUE, new_step |-> None, criteria_result |-> cr]
             ELSE IF moved.ok
               THEN [record |-> moved.record, transitioned |-> TRUE,
                     new_step |-> next_step, criteria_result |-> cr]
               ELSE refused(cr)

ServiceFrame == <<pending_messages, streaming_results, pc, message, lookups, agent_result,
                  submitted, retries, faults, started, finished, terminal,
                  completed_notified, orchs, tasks, signals, env, store>>

\* The collaborators a call can run against
ServiceEnvs == {Env(TRUE, 2, 0), Env(TRUE, 3, 1), Env(FALSE, 0, 0)}

\* self._process_signal(signal) of an active workflow, called on its own:
\* the state change and the update_workflow_step activity of _transition_step
CallProcessSignal(signal, stored) ==
  /\ calls.n < MaxCalls
  /\ state.status = "active"
  /\ state' = ApplySignal(state, signal)
  /\ db' = IF state'.current_step # state.current_step /\ stored
             THEN UpdateWorkflowStep(db, state'.current_step, state'.context)
             ELSE db
  /\ calls' = [n |-> calls.n + 1, op |-> "_process_signal",
               rid |-> SignalGet(signal, "action", "stay"), ret |-> None]
  /\ UNCHANGED ServiceFrame

CallProcessAgentSignal(signal, stored) ==
  /\ calls.n < MaxCalls
  /\ LET r == ProcessAgentSignal(db, signal, env, stored) IN
       /\ db' = r.record
       /\ calls' = [n |-> calls.n + 1, op |-> "process_agent_signal",
                    rid |-> SignalGet(signal, "action", "stay"),
                    ret |-> [transitioned |-> r.transitioned, new_step |-> r.new_step,
                             criteria_result |-> r.criteria_result]]
  /\ UNCHANGED state
  /\ UNCHANGED ServiceFrame

CallTransition(to_step, stored) ==
  /\ calls.n < MaxCalls
  /\ LET r == Transition(db, to_step, EmptyContext, stored) IN
       /\ db' = r.record
       /\ calls' = [n |-> calls.n + 1, op |-> "transition", rid |-> to_step, ret |-> r.ok]
  /\ UNCHANGED state
  /\ UNCHANGED ServiceFrame

CallUpdateContext(data, stored) ==
  /\ calls.n < MaxCalls
  /\ db' = UpdateContext(db, data, stored)
  /\ calls' = [n |-> calls.n + 1, op |-> "update_context", rid |-> None, ret |-> stored]
  /\ UNCHANGED state
  /\ UNCHANGED ServiceFrame

CallPauseWorkflow(stored) ==
  /\ calls.n < MaxCalls
  /\ db' = PauseWorkflow(db, stored)
  /\ calls' = [n |-> calls.n + 1, op |-> "pause_workflow", rid |-> None, ret |-> stored]
  /\ UNCHANGED state
  /\ UNCHANGED ServiceFrame

CallResumeWorkflow(stored) ==
  /\ calls.n < MaxCalls
  /\ db' = ResumeWorkflow(db, stored)
  /\ calls' = [n |-> calls.n + 1, op |-> "resume_workflow", rid |-> None, ret |-> stored]
  /\ UNCHANGED state
  /\ UNCHANGED ServiceFrame

ServiceCall ==
  \/ \E signal \in RunWorkflowAgentResults, stored \in BOOLEAN :
        CallProcessSignal(signal.workflow_signal, stored)
  \/ \E signal \in RunWorkflowAgentResults, stored \in BOOLEAN :
        CallProcessAgentSignal(signal.workflow_signal, stored)
  \/ \E to_step \in StepNames, stored \in BOOLEAN : CallTransition(to_step, stored)
  \/ \E stored \in BOOLEAN : CallUpdateContext(SomeData, stored)
  \/ \E stored \in BOOLEAN : CallPauseWorkflow(stored)
  \/ \E stored \in BOOLEAN : CallResumeWorkflow(stored)

\* An active workflow with its stored instance, as run() and start_workflow
\* create them or advanced by k earlier transitions
InitService ==
  /\ pc = "detached"
  /\ \E k \in 0..3 :
       /\ state = [current_step |-> StepOrder[k + 1], status |-> "active",
                   steps_completed |-> Prefix(k), context |-> EmptyContext]
       /\ db = CreateWorkflowInstance(StepOrder[k + 1])
  /\ pending_messages = << >>
  /\ streaming_results = [r \in RequestIds |-> NoStreamingResult]
  /\ message = NoMessage
  /\ lookups = NoLookups
  /\ agent_result = NoAgentResult
  /\ submitted = 0
  /\ retries = 0
  /\ faults = 0
  /\ started = {}
  /\ finished = {}
  /\ terminal = [m \in Msgs |-> {}]
  /\ completed_notified = 0
  /\ orchs = << >>
  /\ tasks = << >>
  /\ signals = [r \in RequestIds |-> 0]
  /\ calls = NoCall
  /\ env \in ServiceEnvs
  /\ store = CreateRecord(NoRecords, "workflow_instances", InstanceRecord)

SpecService == InitService /\ [][ServiceCall]_vars

(***************************************************************************)
(* The workflow observed through its queries                               *)
(***************************************************************************)

\* @workflow.query get_state: {} before run() has built the state
GetState(st) == IF st = NoState THEN << >> ELSE st

\* @workflow.query get_current_step
GetCurrentStep(st) == IF st = NoState THEN "" ELSE st.current_step

\* Faulty variant of get_progress: the current step counts as completed
GetProgressCountsCurrent(st) ==
  IF st = NoState
    THEN [completed |-> 0, total |-> Cardinality(DOMAIN ONBOARDING_STEPS), percentage |-> 0,
          current_step |-> Absent, steps_completed |-> Absent]
    ELSE LET completed == Len(st.steps_completed) + 1
             total == Cardinality(DOMAIN ONBOARDING_STEPS)
         IN [completed |-> completed, total |-> total,
             percentage |-> IF total > 0 THEN (completed * 100) \div total ELSE 0,
             current_step |-> st.current_step, steps_completed |-> st.steps_completed]

\* @workflow.query get_progress; int((completed / total) * 100) is exact for
\* the four steps of the table
GetProgress(st) ==
  IF st = NoState
    THEN [completed |-> 0, total |-> Cardinality(DOMAIN ONBOARDING_STEPS), percentage |-> 0,
          current_step |-> Absent, steps_completed |-> Absent]
    ELSE LET completed == Len(st.steps_completed)
             total == Cardinality(DOMAIN ONBOARDING_STEPS)
         IN [completed |-> completed, total |-> total,
             percentage |-> IF total > 0 THEN (completed * 100) \div total ELSE 0,
             current_step |-> st.current_step, steps_completed |-> st.steps_completed]

QueryFrame == <<state, pending_messages, streaming_results, pc, message, lookups, agent_result,
                submitted, retries, faults, started, finished, terminal,
                completed_notified, db, orchs, tasks, signals, env, store>>

\* handle.query(...): the handler reads the workflow and returns
QueryGetState ==
  /\ calls = NoCall
  /\ calls' = [n |-> 1, op |-> "get_state", rid |-> None, ret |-> GetState(state)]
  /\ UNCHANGED QueryFrame

QueryGetCurrentStep ==
  /\ calls = NoCall
  /\ calls' = [n |-> 1, op |-> "get_current_step", rid |-> None,
               ret |-> GetCurrentStep(state)]
  /\ UNCHANGED QueryFrame

QueryGetProgress ==
  /\ calls = NoCall
  /\ calls' = [n |-> 1, op |-> "get_progress", rid |-> None, ret |-> GetProgress(state)]
  /\ UNCHANGED QueryFrame

\* A run of the workflow that is observed once, at any point, by a query
NextQuery ==
  \/ calls = NoCall /\ Next
  \/ QueryGetState
  \/ QueryGetCurrentStep
  \/ QueryGetProgress

SpecQuery == Init /\ [][NextQuery]_vars

(***************************************************************************)
(* The completion-criteria registry called directly                        *)
(***************************************************************************)

\* The inputs of check_completion_criteria
CriteriaTypes == CheckerTypes \cup {"custom", "unknown", Absent}
MinValues == (1..MaxMin) \cup {PER_PAGE + 1}
CriteriaConfigs ==
  {[type |-> t, params |-> "given", min |-> m] : t \in CriteriaTypes, m \in MinValues}
    \cup {[type |-> t, params |-> p, min |-> 1] : t \in CriteriaTypes, p \in {Absent, None}}
UserIds == {"u1", "u2"}
SignalData == {NoData, SomeData}

\* The collaborators: the memory service with its facts, the user's records
\* in the collection, and one failure at a time
FactCounts == 0..MaxFacts
ItemCounts == (0..MaxItems) \cup {PER_PAGE, PER_PAGE + 1}
CriteriaEnvs ==
  {Env(a, f, 0) : a \in BOOLEAN, f \in FactCounts}
    \cup {Env(TRUE, 0, i) : i \in ItemCounts}
    \cup {[Env(TRUE, f, 0) EXCEPT !.mem_raises = TRUE] : f \in FactCounts}
    \cup {[Env(TRUE, f, 0) EXCEPT !.mem_query_fails = TRUE] : f \in FactCounts}
    \cup {[Env(TRUE, 0, i) EXCEPT !.list_raises = TRUE] : i \in ItemCounts}

CriteriaFrame == <<state, pending_messages, streaming_results, pc, message, lookups, agent_result,
                   submitted, retries, faults, started, finished, terminal,
                   completed_notified, db, orchs, tasks, signals, store>>

\* register_checker(name, checker) under a new name
RegisterChecker(behaviour) ==
  /\ env.custom # behaviour
  /\ env' = [env EXCEPT !.custom = behaviour]
  /\ UNCHANGED calls
  /\ UNCHANGED CriteriaFrame

\* await check_completion_criteria(criteria_config, instance_id, user_id,
\* signal_data), once in a behaviour
CallCheckCompletionCriteria(criteria_config, user_id, signal_data) ==
  /\ calls = NoCall
  /\ calls' = [n |-> calls.n + 1, op |-> "check_completion_criteria",
               rid |-> [criteria_config |-> criteria_config, user_id |-> user_id,
                        signal_data |-> signal_data],
               ret |-> CheckCompletionCriteriaFor(criteria_config, "wf", user_id,
                                                  signal_data, env)]
  /\ UNCHANGED env
  /\ UNCHANGED CriteriaFrame

\* The check_step_criteria activity: the result of check_completion_criteria
\* copied into a CheckCriteriaResult
CallCheckStepCriteria(criteria_config, user_id, signal_data) ==
  /\ calls = NoCall
  /\ LET result == CheckCompletionCriteriaFor(criteria_config, "wf", user_id,
                                              signal_data, env)
     IN calls' = [n |-> calls.n + 1, op |-> "check_step_criteria",
                  rid |-> [criteria_config |-> criteria_config, user_id |-> user_id,
                           signal_data |-> signal_data],
                  ret |-> [satisfied |-> result.satisfied, missing |-> result.missing,
                           data |-> result.data]]
  /\ UNCHANGED env
  /\ UNCHANGED CriteriaFrame

InitCriteria ==
  /\ pc = "detached"
  /\ state = NoState
  /\ db = NoRecord
  /\ pending_messages = << >>
  /\ streaming_results = [r \in RequestIds |-> NoStreamingResult]
  /\ message = NoMessage
  /\ lookups = NoLookups
  /\ agent_result = NoAgentResult
  /\ submitted = 0
  /\ retries = 0
  /\ faults = 0
  /\ started = {}
  /\ finished = {}
  /\ terminal = [m \in Msgs |-> {}]
  /\ completed_notified = 0
  /\ orchs = << >>
  /\ tasks = << >>
  /\ signals = [r \in RequestIds |-> 0]
  /\ calls = NoCall
  /\ env \in CriteriaEnvs
  /\ store = NoRecords

NextCriteria ==
  \/ \E b \in CustomCheckers : RegisterChecker(b)
  \/ \E c \in CriteriaConfigs, u \in UserIds, d \in SignalData :
        CallCheckCompletionCriteria(c, u, d)
  \/ \E c \in CriteriaConfigs, u \in UserIds, d \in SignalData :
        CallCheckStepCriteria(c, u, d)

SpecCriteria == InitCriteria /\ [][NextCriteria]_vars

(***************************************************************************)
(* Properties                                                              *)
(***************************************************************************)

\* C1: in OnboardingWorkflow a complete_step signal advances the step only
\* when the step's completion criteria resolve to satisfied: while they are
\* unsatisfied, applying a signal leaves current_step and steps_completed
\* unchanged.
C1_CriteriaGateTransition ==
  [][(pc = "process_signal"
      /\ pc' = "wait"
      /\ ~CheckCompletionCriteria(STEP_CRITERIA[state.current_step], env).satisfied)
     => (state'.current_step = state.current_step
         /\ state'.steps_completed = state.steps_completed)]_vars

\* C2: applying a signal whose action is stay or need_input, or an absent
\* signal, changes neither current_step, steps_completed nor status, in
\* _process_signal and in WorkflowService.process_agent_signal alike.
C2_StayKeepsStep ==
  [][(calls'.n = calls.n + 1
      /\ calls'.op \in {"_process_signal", "process_agent_signal"}
      /\ calls'.rid \in {"stay", "need_input"})
     => (state'.current_step = state.current_step
         /\ state'.steps_completed = state.steps_completed
         /\ state'.status = state.status
         /\ db'.current_step = db.current_step
         /\ db'.status = db.status)]_vars

\* C2 witness: the workflow has applied a signal with data and no
\* complete_step (data stored, nothing completed), and the last call was
\* process_agent_signal with need_input on the stored instance.
C2_Witness ==
  /\ calls.op = "process_agent_signal"
  /\ calls.rid = "need_input"
  /\ state.context.step_data # << >>
  /\ state.steps_completed = << >>
  /\ state.current_step = "greeting"
  /\ db.current_step = "greeting"
  /\ db.context.keys # {}

\* C3: an active instance at a non-terminal step S with agent_signal criteria
\* that applies complete_step moves to S's next step, appends S to
\* steps_completed exactly once and stays active.
C3_CompleteStepAdvances ==
  [][(pc = "process_signal"
      /\ pc' = "wait"
      /\ state.status = "active"
      /\ STEP_CRITERIA[state.current_step].type = "agent_signal"
      /\ ONBOARDING_STEPS[state.current_step].next # None
      /\ SignalGet(agent_result.workflow_signal, "action", "stay") = "complete_step")
     => (state'.current_step = ONBOARDING_STEPS[state.current_step].next
         /\ state'.steps_completed = Append(state.steps_completed, state.current_step)
         /\ state'.status = "active")]_vars

\* C3 witness: started at greeting, the instance is at discovery with
\* steps_completed = [greeting], the message that completed greeting finished.
C3_Witness ==
  /\ state.current_step = "discovery"
  /\ state.steps_completed = <<"greeting">>
  /\ state.status = "active"
  /\ "greeting" \in DOMAIN state.context.step_data
  /\ finished = {1}

\* C4: complete_step at the terminal step sets status completed and keeps
\* current_step; from then on the state does not change and no further
\* message is begun, the run can only go on to its end, and
\* workflow.completed is sent at most once, exactly once when run() is done.
C4_TerminalCompletes ==
  /\ [][(pc = "process_signal"
         /\ pc' = "wait"
         /\ state.status = "active"
         /\ ONBOARDING_STEPS[state.current_step].next = None
         /\ SignalGet(agent_result.workflow_signal, "action", "stay") = "complete_step")
        => (state'.status = "completed"
            /\ state'.current_step = state.current_step)]_vars
  /\ [][state.status = "completed" => (state' = state /\ started' = started)]_vars
  /\ [](state.status = "completed" => pc \in {"wait", "done"})
  /\ [](completed_notified <= 1)
  /\ [](pc = "done" => (completed_notified = 1 /\ state.status = "completed"))

\* C4 witness: the run is done at the terminal step, completed, notified once.
C4_Witness ==
  /\ pc = "done"
  /\ state.status = "completed"
  /\ state.current_step = "setup_complete"
  /\ state.steps_completed = StepOrder
  /\ completed_notified = 1

\* C5: messages are processed in arrival order: a message is begun only
\* after every message that arrived before it has finished.
C5_ArrivalOrder ==
  \A m1 \in Msgs, m2 \in Msgs : (m1 < m2 /\ m2 \in started) => m1 \in finished

\* C5 witness: the second message is being processed after the first finished.
C5_Witness ==
  /\ started = {1, 2}
  /\ finished = {1}
  /\ message.id = 2

\* C6: at most one message is being processed at any time, and a
\* user_message signal only appends to pending_messages: it begins no
\* processing and changes neither the position of run() nor the state.
C6_SingleInFlight ==
  /\ [](Cardinality(started \ finished) <= 1)
  /\ [][submitted' # submitted
        => (/\ Len(pending_messages') = Len(pending_messages) + 1
            /\ SubSeq(pending_messages', 1, Len(pending_messages)) = pending_messages
            /\ pending_messages'[Len(pending_messages')].id = submitted'
            /\ UNCHANGED <<state, pc, message, started, finished, db>>)]_vars

\* C6 witness: a message arrives and waits in the queue while the workflow is
\* blocked in wait_for_stream for the message in flight.
C6_Witness ==
  /\ pc = "wait_stream"
  /\ started \ finished = {1}
  /\ Len(pending_messages) = 1
  /\ pending_messages[1].id = 2

\* C7: no submitted message is dropped: when run() has ended, every message
\* submitted to the instance has had a terminal event (stream.end,
\* message.new or stream.error) sent to the client.
C7_EveryMessageAnswered ==
  pc = "done" => \A m \in 1..submitted : terminal[m] # {}

\* C8: while the workflow is blocked in wait_for_stream(request_id), the
\* streaming_complete signal for that id has arrived or a background stream
\* of that message is still running that will send it.
C8_BlockedWaitHasSignaller ==
  pc = "wait_stream"
    => \/ streaming_results[message.request_id].present
       \/ \E t \in DOMAIN tasks :
            /\ tasks[t].request_id = message.request_id
            /\ tasks[t].msg = message.id
            /\ tasks[t].pc # "done"

\* C9: at most one executor run is in progress for a request id, across all
\* executions of the start_streaming activity.
C9_OneExecutorPerRequest ==
  \A t1 \in DOMAIN tasks, t2 \in DOMAIN tasks :
    (t1 # t2 /\ tasks[t1].request_id = tasks[t2].request_id)
      => ~(tasks[t1].pc = "streaming" /\ tasks[t2].pc = "streaming")

\* C10: start_stream for a request id already in _active_streams creates no
\* task, sends no event, returns normally, and leaves every stream unchanged.
C10_DuplicateStartIsNoOp ==
  [][(calls'.n = calls.n + 1
      /\ calls'.op = "start_stream"
      /\ orchs[1].active_streams[calls'.rid] # 0)
     => (tasks' = tasks
         /\ orchs' = orchs
         /\ terminal' = terminal
         /\ streaming_results' = streaming_results
         /\ signals' = signals)]_vars

\* C10 witness: a duplicate start_stream has just returned while the stream
\* of that id is running and a stream of the other id is in flight.
C10_Witness ==
  /\ calls.op = "start_stream"
  /\ calls.ret = "already active, ignoring duplicate"
  /\ Len(tasks) = 2
  /\ orchs[1].active_streams[calls.rid] # 0
  /\ tasks[orchs[1].active_streams[calls.rid]].pc = "streaming"

\* C11: get_result raises exactly when the executor holds no state for the
\* request id, and a successful get_result removes the state; after cancel or
\* get_result no state is left, so a get_result that follows either of them
\* with no new run registered in between raises.
C11_GetResultNeedsState ==
  /\ [][(calls'.n = calls.n + 1 /\ calls'.op = "get_result")
        => (/\ calls'.ret.found = (orchs[1].active_states[calls'.rid] # 0)
            /\ orchs'[1].active_states[calls'.rid] = 0)]_vars
  /\ [][(calls'.n = calls.n + 1 /\ calls'.op = "cancel")
        => orchs'[1].active_states[calls'.rid] = 0]_vars
  /\ [][(calls.op \in {"cancel", "get_result"}
         /\ calls'.n = calls.n + 1
         /\ calls'.op = "get_result"
         /\ calls'.rid = calls.rid
         /\ orchs[1].active_states[calls.rid] = 0)
        => ~calls'.ret.found]_vars

\* C11 witness: a run registered its state, cancel removed it, and the
\* get_result that followed raised.
C11_Witness ==
  /\ calls.op = "get_result"
  /\ ~calls.ret.found
  /\ \E t \in DOMAIN tasks :
       /\ tasks[t].request_id = calls.rid
       /\ tasks[t].error = "Cancelled by user"
  /\ orchs[1].active_states[calls.rid] = 0

\* C13: for snapshots that each extend the previous one, every delta is the
\* suffix new[len(old):], the concatenation of the deltas equals the
\* accumulated content, and get_result returns that content.
C13_DeltasRebuildContent ==
  /\ [](\A t \in DOMAIN tasks : tasks[t].deltas = tasks[t].acc)
  /\ [][\A t \in DOMAIN tasks :
          tasks'[t].acc # tasks[t].acc
            => tasks'[t].deltas =
                 tasks[t].deltas \o SubSeq(tasks'[t].acc, Len(tasks[t].acc) + 1,
                                           Len(tasks'[t].acc))]_vars
  /\ [][(calls'.n = calls.n + 1 /\ calls'.op = "get_result" /\ calls'.ret.found)
        => calls'.ret.content = tasks[orchs[1].active_states[calls'.rid]].deltas]_vars

\* C13 witness: get_result returned the content of a run that yielded two
\* chunks.
C13_Witness ==
  /\ calls.op = "get_result"
  /\ calls.ret.found
  /\ calls.ret.content = <<"a", "a">>

\* C12: once cancel_stream has returned True for a stream, that stream sends
\* no further stream.chunk and the executor holds no state for it: the call
\* leaves the task cancelled and the state removed; a cancelled task sends no
\* chunk, registers no state and can only go on to its error handling; a
\* task in its error handling or done sends no chunk and registers no state.
C12_NoChunkAfterCancel ==
  /\ [][(calls'.n = calls.n + 1 /\ calls'.op = "cancel_stream" /\ calls'.ret)
        => (/\ tasks'[orchs[1].active_streams[calls'.rid]].cancel
            /\ orchs'[1].active_streams[calls'.rid] = 0
            /\ orchs'[1].active_states[calls'.rid] = 0)]_vars
  /\ [][\A t \in DOMAIN tasks :
          (tasks[t].cancel \/ tasks[t].pc \in {"error_signal", "done"})
            => (/\ tasks'[t].acc = tasks[t].acc
                /\ \/ tasks'[t].sent = tasks[t].sent
                   \/ tasks'[t].sent[Len(tasks'[t].sent)] # "stream.chunk"
                /\ tasks'[t].cancel \/ tasks'[t].pc \in {"error_signal", "done"}
                /\ orchs'[1].active_states[tasks[t].request_id] = t
                     => orchs[1].active_states[tasks[t].request_id] = t)]_vars

\* C12 witness: a stream that had sent a chunk was cancelled and has ended
\* through its cancellation handler.
C12_Witness ==
  \E t \in DOMAIN tasks :
    /\ tasks[t].error = "Stream cancelled"
    /\ tasks[t].pc = "done"
    /\ Len(tasks[t].acc) = 1
    /\ orchs[1].active_states[tasks[t].request_id] = 0

\* C14: after initialization current_step of the workflow is always a key of
\* ONBOARDING_STEPS, also after the final transition, so a message that is
\* begun always goes on past the "Unknown step" check.
C14_StepAlwaysDefined ==
  /\ [](pc # "init" => state.current_step \in DOMAIN ONBOARDING_STEPS)
  /\ [][started' # started => pc' = "save_user"]_vars

\* C14 witness: the final transition has been made and current_step is still
\* the terminal step's name.
C14_Witness ==
  /\ pc = "wait"
  /\ state.status = "completed"
  /\ state.current_step = "setup_complete"
  /\ Len(state.steps_completed) = 4

\* C15: a completed instance is immutable: transition, update_context,
\* pause_workflow and resume_workflow leave a stored instance whose status is
\* completed as it is.
C15_CompletedIsImmutable ==
  [][(db.status = "completed"
      /\ calls'.n = calls.n + 1
      /\ calls'.op \in {"transition", "update_context", "pause_workflow",
                        "resume_workflow"})
     => db' = db]_vars

\* C16: the stored status becomes completed only by a step taken at the
\* terminal step that leaves current_step there; entering the terminal step
\* leaves the status active.
C16_CompletedOnlyAtTerminal ==
  [][(db.status # "completed" /\ db'.status = "completed")
     => (/\ ONBOARDING_STEPS[db.current_step].next = None
         /\ db'.current_step = db.current_step)]_vars

\* C17: process_agent_signal with complete_step on a step whose criteria are
\* unsatisfied writes nothing and returns (False, None, criteria_result) with
\* the reasons in missing; the step changes only with a satisfied result, and
\* then to the configured next step.
C17_UnsatisfiedWritesNothing ==
  /\ [][(calls'.n = calls.n + 1
         /\ calls'.op = "process_agent_signal"
         /\ calls'.rid = "complete_step"
         /\ ~CheckCompletionCriteria(STEP_CRITERIA[db.current_step], env).satisfied)
        => (/\ db' = db
            /\ ~calls'.ret.transitioned
            /\ calls'.ret.new_step = None
            /\ calls'.ret.criteria_result.evaluated
            /\ ~calls'.ret.criteria_result.satisfied
            /\ calls'.ret.criteria_result.missing # {})]_vars
  /\ [][(calls'.n = calls.n + 1
         /\ calls'.op = "process_agent_signal"
         /\ db'.current_step # db.current_step)
        => (/\ CheckCompletionCriteria(STEP_CRITERIA[db.current_step], env).satisfied
            /\ calls'.ret.criteria_result.satisfied
            /\ calls'.ret.transitioned
            /\ db'.current_step = ONBOARDING_STEPS[db.current_step].next
            /\ calls'.ret.new_step = db'.current_step)]_vars

\* C17 witness: complete_step at discovery was refused with too few facts,
\* after an earlier complete_step at greeting had moved the instance there.
C17_Witness ==
  /\ calls.op = "process_agent_signal"
  /\ calls.rid = "complete_step"
  /\ calls.n = 2
  /\ ~calls.ret.transitioned
  /\ calls.ret.criteria_result.evaluated
  /\ ~calls.ret.criteria_result.satisfied
  /\ db.current_step = "discovery"
  /\ "greeting" \in DOMAIN db.context.step_data

\* C18: update_workflow_step is idempotent: applying the update that a
\* transition has just stored once more, with the same new_step and
\* context_update, leaves the stored instance as it is.
C18_UpdateStepIdempotent ==
  [][(pc = "process_signal" /\ pc' = "wait" /\ db' # db)
     => UpdateWorkflowStep(db', state'.current_step, state'.context) = db']_vars

\* C18 witness: a transition with step data has been stored.
C18_Witness ==
  /\ db.current_step = "brain_dump"
  /\ "discovery" \in DOMAIN db.context.step_data
  /\ state.current_step = "brain_dump"
  /\ pc = "wait"

\* C19: every storage effect of processing a message is idempotent under
\* at-least-once execution: however often the create_workflow_instance and
\* save_message activities are executed, the store holds at most one instance
\* record of the workflow and at most one record per message and role.
C19_NoDuplicateRecords ==
  /\ Len(store.workflow_instances) <= 1
  /\ \A i, j \in DOMAIN store.messages :
        store.messages[i] = store.messages[j] => i = j

\* C20: a failure of update_workflow_step or complete_workflow is not
\* swallowed: whenever the workflow is between messages the stored instance
\* is at the workflow's current step, and once run() has ended the stored
\* status is completed.
C20_StoreFollowsWorkflow ==
  /\ (pc \in {"wait", "done"} /\ db.exists) => db.current_step = state.current_step
  /\ pc = "done" => db.status = "completed"

\* C21: when the agent invocation for a message fails (run_workflow_agent
\* finds no agent or raises; the awaited stream ends with an error) the
\* resulting signal is stay with the error as its reason, and processing the
\* message changes neither current_step nor steps_completed.
C21_FailureIsStayWithReason ==
  /\ [][(pc = "run_agent" /\ pc' = "save_assistant" /\ agent_result'.error # None)
        => agent_result'.workflow_signal =
             [action |-> "stay", data |-> NoData, reason |-> agent_result'.error]]_vars
  /\ [][(/\ pc = "wait_stream" /\ pc' = "save_assistant"
         /\ streaming_results[message.request_id].error # None)
        => agent_result'.workflow_signal =
             [action |-> "stay", data |-> NoData,
              reason |-> streaming_results[message.request_id].error]]_vars
  /\ [][(/\ pc = "process_signal" /\ pc' = "wait"
         /\ \/ agent_result.error # None
            \/ "stream.error" \in terminal[message.id])
        => (/\ state'.current_step = state.current_step
            /\ state'.steps_completed = state.steps_completed)]_vars

\* C22: when wait_for_stream times out, the timeout is surfaced to the caller
\* as a stream error for that request: once the wait has failed, a
\* stream.error event for the waiting message has been sent to the client.
C22_TimeoutSurfacedAsStreamError ==
  pc = "failed" => "stream.error" \in terminal[message.id]

\* C23: each streaming result is consumed exactly once: wait_for_stream(r)
\* returns only when a result for r is stored and removes it; the result a
\* message consumes is one a finished stream of that message has signalled;
\* and no result for r is stored when the processing of a message with
\* request id r begins.
C23_ResultConsumedOnce ==
  /\ [][(pc = "wait_stream" /\ pc' = "save_assistant")
        => (/\ streaming_results[message.request_id].present
            /\ ~streaming_results'[message.request_id].present
            /\ \E t \in DOMAIN tasks :
                  /\ tasks[t].msg = message.id
                  /\ tasks[t].request_id = message.request_id
                  /\ tasks[t].pc = "done"
                  /\ streaming_results[message.request_id].error = tasks[t].error)]_vars
  /\ [][(pc = "wait" /\ pc' = "save_user" /\ message'.request_id # None)
        => ~streaming_results[message'.request_id].present]_vars

\* The last call was a criteria check with this type of criteria
CheckedType(types) ==
  /\ calls.op \in {"check_completion_criteria", "check_step_criteria"}
  /\ calls.rid.criteria_config.type \in types

\* C24: the agent_signal and auto checkers return satisfied for every
\* combination of instance id, user id, signal data and params.
C24_AgentSignalAndAutoSatisfied ==
  CheckedType({"agent_signal", "auto"}) => calls.ret = Satisfied({})
C24_Witness ==
  /\ CheckedType({"auto"})
  /\ calls.rid.criteria_config.params = None
  /\ calls.rid.signal_data = SomeData
  /\ calls.rid.user_id = "u2"
  /\ calls.ret.satisfied

\* C25: with the collaborator available and the query succeeding,
\* agent_signal_memory is satisfied iff the facts returned under the limit
\* min_facts + 5 are at least min_facts, agent_signal_widget is satisfied iff
\* the user's records in the collection are at least min_items, and an
\* unsatisfied result carries a reason in missing.
C25_SatisfiedIffEnough ==
  /\ (/\ CheckedType({"agent_signal_memory"})
      /\ calls.rid.criteria_config.params # None
      /\ env.mem_available /\ ~env.mem_raises /\ ~env.mem_query_fails)
     => LET min_facts == ParamsGet(calls.rid.criteria_config, 1) IN
          /\ calls.ret.satisfied <=> Min(env.facts, min_facts + 5) >= min_facts
          /\ ~calls.ret.satisfied => calls.ret.missing # {}
  /\ (/\ CheckedType({"agent_signal_widget"})
      /\ calls.rid.criteria_config.params # None
      /\ ~env.list_raises)
     => LET min_items == ParamsGet(calls.rid.criteria_config, 1) IN
          /\ calls.ret.satisfied <=> env.items >= min_items
          /\ ~calls.ret.satisfied => calls.ret.missing # {}

\* C26: agent_signal_memory returns satisfied when the memory service is
\* unavailable or the query fails, agent_signal_widget returns satisfied when
\* the record listing fails, and the degradation is recorded in data.
C26_DegradesToSatisfied ==
  /\ (/\ CheckedType({"agent_signal_memory"})
      /\ calls.rid.criteria_config.params # None
      /\ (~env.mem_available \/ env.mem_raises \/ env.mem_query_fails))
     => (/\ calls.ret.satisfied
         /\ calls.ret.data \cap {"memory_check_skipped", "memory_check_error"} # {})
  /\ (/\ CheckedType({"agent_signal_widget"})
      /\ calls.rid.criteria_config.params # None
      /\ env.list_raises)
     => (/\ calls.ret.satisfied
         /\ "widget_check_error" \in calls.ret.data)

\* C27: check_completion_criteria with a type that is not in the registry, or
\* with no type, evaluates the agent_signal checker and returns satisfied.
C27_UnknownTypeFallsBack ==
  [][(/\ calls'.n = calls.n + 1
      /\ calls'.op = "check_completion_criteria"
      /\ \/ calls'.rid.criteria_config.type \in {"unknown", Absent}
         \/ calls'.rid.criteria_config.type = "custom" /\ env.custom = None)
     => (/\ calls'.ret = AgentSignalChecker("wf", calls'.rid.user_id, calls'.rid.signal_data,
                                            calls'.rid.criteria_config.params)
         /\ calls'.ret.satisfied)]_vars
C27_Witness ==
  /\ calls.op = "check_completion_criteria"
  /\ calls.rid.criteria_config.type = "unknown"
  /\ calls.rid.criteria_config.params = "given"
  /\ calls.rid.criteria_config.min = MaxMin
  /\ calls.ret.satisfied

\* C28: check_completion_criteria never raises: an exception of the selected
\* checker, built in or registered, becomes an unsatisfied result with the
\* failure in missing, and every call returns a CriteriaResult.
C28_CheckerExceptionIsUnsatisfied ==
  [][(/\ calls'.n = calls.n + 1
      /\ calls'.op \in {"check_completion_criteria", "check_step_criteria"})
     => (/\ calls'.ret.satisfied \in BOOLEAN
         /\ (\/ /\ calls'.rid.criteria_config.type = "custom"
                /\ env.custom = "raises"
             \/ /\ calls'.rid.criteria_config.type
                     \in {"agent_signal_memory", "agent_signal_widget"}
                /\ calls'.rid.criteria_config.params = None)
            => (/\ ~calls'.ret.satisfied
                /\ "Criteria check failed" \in calls'.ret.missing))]_vars
C28_Witness ==
  /\ calls.op = "check_completion_criteria"
  /\ calls.rid.criteria_config.type = "custom"
  /\ env.custom = "raises"
  /\ ~calls.ret.satisfied
  /\ "Criteria check failed" \in calls.ret.missing

\* The number of next pointers between a step and a step whose next is
\* null, followed for at most fuel hops; more than the number of steps when
\* no such step is met
RECURSIVE Hops(_, _)
Hops(s, fuel) ==
  IF s \notin StepNames THEN Cardinality(StepNames) + 1
  ELSE IF ONBOARDING_STEPS[s].next = None THEN 0
  ELSE IF fuel = 0 THEN Cardinality(StepNames) + 1
  ELSE 1 + Hops(ONBOARDING_STEPS[s].next, fuel - 1)
Distance(s) == Hops(s, Cardinality(StepNames))

\* C29: every next pointer of ONBOARDING_STEPS is null or a defined step and
\* leads to a step with next = null without a cycle, so each accepted
\* complete_step either completes the instance at the last step or moves it
\* one hop closer to the last step.
C29_NextChainEnds ==
  /\ [](\A s \in StepNames :
          /\ ONBOARDING_STEPS[s].next \in StepNames \cup {None}
          /\ Distance(s) < Cardinality(StepNames))
  /\ [][(/\ pc = "process_signal" /\ pc' = "wait"
         /\ SignalGet(agent_result.workflow_signal, "action", "stay") = "complete_step")
        => IF Distance(state.current_step) = 0
             THEN state'.status = "completed"
             ELSE /\ state'.status = "active"
                  /\ Distance(state'.current_step) = Distance(state.current_step) - 1]_vars
C29_Witness ==
  /\ state.current_step = "setup_complete"
  /\ state.status = "completed"
  /\ state.steps_completed = StepOrder
  /\ finished = {1, 2}

\* C30: the queries can be evaluated in every reachable state, also before
\* initialisation, and change nothing; get_progress returns completed =
\* length of steps_completed, total = number of defined steps and percentage
\* = floor(100 * completed / total), between 0 and 100 and equal to 100
\* exactly when the status is completed.
C30_QueriesReadOnly ==
  /\ [][calls' # calls => UNCHANGED QueryFrame]_vars
  /\ [](calls.op = "get_current_step"
          => calls.ret = IF state = NoState THEN "" ELSE state.current_step)
  /\ [](calls.op = "get_state" /\ state # NoState => calls.ret = state)
  /\ [](calls.op = "get_progress"
          => LET p == calls.ret IN
               /\ p.completed = IF state = NoState THEN 0 ELSE Len(state.steps_completed)
               /\ p.total = Cardinality(StepNames)
               /\ p.percentage = (100 * p.completed) \div p.total
               /\ p.percentage \in 0..100
               /\ p.percentage = 100 <=> state.status = "completed")
C30_Witness ==
  /\ calls.op = "get_progress"
  /\ state.status = "completed"
  /\ calls.ret.completed = 4
  /\ calls.ret.percentage = 100

\* C31: StreamExecutor.cancel and StreamingOrchestrator.cancel_stream are
\* idempotent: for an id that is not active they return False and change
\* nothing, a second cancel of the same id returns False and leaves the
\* state of the first, and the entries of other request ids are untouched.
C31_CancelIdempotent ==
  /\ [][(/\ calls'.n = calls.n + 1 /\ calls'.op = "cancel_stream"
         /\ orchs[1].active_streams[calls'.rid] = 0)
        => (calls'.ret = FALSE /\ orchs' = orchs /\ tasks' = tasks)]_vars
  /\ [](\A rid \in RequestIds :
          LET once == CancelStream(orchs, tasks, 1, rid)
              twice == CancelStream(once.orchs, once.tasks, 1, rid)
              ex_once == ExecutorCancel(orchs, tasks, 1, rid)
              ex_twice == ExecutorCancel(ex_once.orchs, ex_once.tasks, 1, rid)
          IN /\ ~twice.found /\ twice.orchs = once.orchs /\ twice.tasks = once.tasks
             /\ ~ex_twice.found /\ ex_twice.orchs = ex_once.orchs
             /\ ex_twice.tasks = ex_once.tasks
             /\ ~ex_once.found => (ex_once.orchs = orchs /\ ex_once.tasks = tasks)
             /\ \A other \in RequestIds \ {rid} :
                  /\ once.orchs[1].active_streams[other] = orchs[1].active_streams[other]
                  /\ once.orchs[1].active_states[other] = orchs[1].active_states[other]
                  /\ \A t \in DOMAIN tasks :
                        tasks[t].request_id = other => once.tasks[t] = tasks[t])
C31_Witness ==
  /\ calls.op = "cancel_stream"
  /\ calls.ret = FALSE
  /\ \E t \in DOMAIN tasks :
       /\ tasks[t].request_id = calls.rid
       /\ tasks[t].error = "Cancelled by user"

\* C32: a failing memory search or collection listing while a message is
\* processed yields an empty list for that lookup and does not abort the
\* step: the agent is dispatched next, on either path.
C32_LookupFailureDegrades ==
  [][/\ (pc = "save_user" /\ pc' # pc)
        => /\ pc' \in {"start_streaming", "run_agent"}
           /\ "search_memories" \in lookups'.failed => lookups'.memories = << >>
           /\ "get_user_collections" \in lookups'.failed
                => lookups'.collections = << >>
     /\ (pc \in {"start_streaming", "run_agent"} /\ lookups.failed # {} /\ pc' # pc)
        => /\ pc' = IF message.request_id # None THEN "wait_stream"
                                                  ELSE "save_assistant"
           /\ message' = message]_vars
C32_Witness ==
  /\ pc = "run_agent"
  /\ lookups.failed = {"search_memories", "get_user_collections"}
  /\ lookups.memories = << >>
  /\ lookups.collections = << >>

\* C33: feeding the turn to the memory collaborator does not block the
\* transition decision: while add_memory of a message has not finished, the
\* signal of that message can already be applied.
C33_AddMemoryDoesNotBlockSignal ==
  pc = "add_memory" => ENABLED ProcessSignal

\* C34: in _run_stream a cancellation produces a stream.error with
\* recoverable = true and any other exception one with recoverable = false,
\* and once the run is over the engine has been signalled with the error
\* string of every stream.error sent (while the engine accepts signals).
C34_ErrorsReportedAndSignalled ==
  \A t \in DOMAIN tasks :
    /\ \A i \in DOMAIN tasks[t].errors :
         tasks[t].errors[i].recoverable <=> tasks[t].errors[i].error = "Stream cancelled"
    /\ (tasks[t].pc = "done" /\ faults = 0 /\ pc # "done")
         => \A i \in DOMAIN tasks[t].errors :
              \E j \in DOMAIN tasks[t].signalled :
                tasks[t].signalled[j].error = tasks[t].errors[i].error

C36_NoStateAfterTermination ==
  \A t \in DOMAIN tasks :
    tasks[t].pc = "done"
      => orchs[tasks[t].orch].active_states[tasks[t].request_id] # t

StepIndex(s) == CHOOSE k \in DOMAIN StepOrder : StepOrder[k] = s

\* C38: steps_completed has no duplicates and is exactly the steps that
\* precede current_step in the next-pointer chain while status is active,
\* and those plus current_step once status is completed; current_step only
\* moves forward along next pointers.
C38_CompletedIsChainPrefix ==
  /\ [](state # NoState
         => /\ \A k \in 1..(Len(StepOrder) - 1) :
                 ONBOARDING_STEPS[StepOrder[k]].next = StepOrder[k + 1]
            /\ state.current_step \in StepNames
            /\ state.status \in {"active", "completed"}
            /\ state.status = "active"
                 => state.steps_completed = Prefix(StepIndex(state.current_step) - 1)
            /\ state.status = "completed"
                 => state.steps_completed = Prefix(StepIndex(state.current_step))
            /\ \A i, j \in DOMAIN state.steps_completed :
                 state.steps_completed[i] = state.steps_completed[j] => i = j)
  /\ [][(state # NoState /\ state'.current_step # state.current_step)
        => /\ state'.current_step = ONBOARDING_STEPS[state.current_step].next
           /\ StepIndex(state'.current_step) = StepIndex(state.current_step) + 1]_vars
C38_Witness ==
  /\ state.status = "completed"
  /\ state.steps_completed = StepOrder
  /\ finished # {}

\* C39: each background stream run has exactly one terminal outcome: the
\* client never receives both stream.end and stream.error for it, and the
\* engine never receives two streaming_complete signals from it.
C39_OneTerminalOutcome ==
  \A t \in DOMAIN tasks :
    /\ ~(/\ \E k \in DOMAIN tasks[t].sent : tasks[t].sent[k] = "stream.end"
         /\ \E k \in DOMAIN tasks[t].sent : tasks[t].sent[k] = "stream.error")
    /\ Len(tasks[t].signalled) <= 1

\* C40: _active_streams holds the entry of a request id while the task it
\* names is running: an entry is removed only by cancel_stream for that id
\* or when its own task terminates, never by the cleanup of an older task
\* of the same request id.
C40_EntryRemovedOnlyByOwner ==
  [][\A o \in DOMAIN orchs : \A rid \in RequestIds :
       LET t == orchs[o].active_streams[rid] IN
       (t # 0 /\ orchs'[o].active_streams[rid] = 0)
         => \/ (calls'.n = calls.n + 1 /\ calls'.op = "cancel_stream" /\ calls'.rid = rid)
            \/ tasks'[t].pc = "done"]_vars

====
